---- MODULE Spec2Model ----
(***************************************************************************)
(* League-of-graphs REST backend: the record stores (summoners, champions, *)
(* matches), the statistics updater (MatchModel.UpdateSummonerStatistics,  *)
(* MatchModel.UpdateChampionStatistics) and the request handlers.          *)
(*                                                                         *)
(* Tables are functions from the key of a row to the row; a key that is    *)
(* not in the DOMAIN has no row.  The tables and columns are those the SQL *)
(* statements of the Go code name (the migration files do not create all   *)
(* of them and cannot be applied in their numbered order).                 *)
(*                                                                         *)
(* float8 values are modelled as exact reduced fractions <<n, d>>.         *)
(***************************************************************************)
EXTENDS Integers, Sequences, FiniteSets, TLC

\* ------------------------------------------------------------------ bounds
MaxSummoners == 2
MaxChampions == 1
MaxSlots == 2
MaxStarts == 2
MaxSeqStarts == 3
MaxRecords == 1

SummonerIds == 1..MaxSummoners
ChampionIds == 1..MaxChampions
Slots == 1..MaxSlots

Usernames == {"ahri", "zed"}
Regions == {"euw"}
ChampionNames == {"Garen"}
Roles == {"Top", "Mid"}

\* ----------------------------------------------------------------- floats
RECURSIVE GCD(_, _)
GCD(a, b) == IF b = 0 THEN a ELSE GCD(b, a % b)

\* the float8 value n/d
Float(n, d) == LET g == GCD(n, d) IN <<n \div g, d \div g>>

Zero == <<0, 1>>

RecomputeBad(rate, count, win) ==
    Float(rate[1] * count + win * rate[2], rate[2] * count)

\* (rate*(count-1) + win) / count
Recompute(rate, count, win) ==
    Float(rate[1] * (count - 1) + win * rate[2], rate[2] * count)

\* database/sql convertAssign of a float64 into an *int: the value is
\* formatted with strconv.FormatFloat(f, 'g', -1, 64) and parsed with
\* strconv.ParseInt, which fails unless the float is integral
ScanIntoIntFails(f) == f[2] # 1
ScanIntoInt(f) == f[1]

\* -------------------------------------------------------------------- KDA
KDAOf(k, d, a) == [Kills |-> k, Deaths |-> d, Assists |-> a]

\* KDA.Value: json.Marshal of the struct, one member per exported field
KDAValue(k) == [Kills |-> k.Kills, Deaths |-> k.Deaths, Assists |-> k.Assists]

\* KDA.Scan: json.Unmarshal into the struct
KDAScan(j) == [Kills |-> j.Kills, Deaths |-> j.Deaths, Assists |-> j.Assists]

MatchKDAs == {KDAOf(0, 0, 0), KDAOf(3, 1, 2)}

\* ------------------------------------------------------------------ state
VARIABLE summoners                \* id -> row of table summoners
VARIABLE champions                \* id -> row of table champions
VARIABLE matches                  \* id -> row of table matches
VARIABLE summoner_champion_stats  \* <<summoner_id, champion_id>> -> row
VARIABLE summoner_role_stats      \* <<summoner_id, role>> -> row
VARIABLE champion_best_summoners  \* <<champion_id, summoner_id>> -> row
VARIABLE serial                   \* the bigserial sequence of each table
VARIABLE tx                       \* slot -> the updater run of that slot
VARIABLE started                  \* number of updater runs begun so far
VARIABLE committed                \* the committed runs of each summoner and champion
VARIABLE returned                 \* the results of the last updater calls
VARIABLE call                     \* the last record-store call and its result
VARIABLE response                 \* the response to the last request
VARIABLE request                  \* the last request: handler, id parameter, body
VARIABLE pending                  \* the PUT request between its Get and its Update

tables == <<summoners, champions, matches, summoner_champion_stats,
            summoner_role_stats, champion_best_summoners>>
aggregates == <<summoners, champions, summoner_champion_stats,
                summoner_role_stats, champion_best_summoners>>
vars == <<summoners, champions, matches, summoner_champion_stats,
          summoner_role_stats, champion_best_summoners, serial, tx, started,
          committed, returned, call, response, request, pending>>

NoRow == [none |-> TRUE]
NoCall == [op |-> "none"]
NoResponse == [handler |-> "none"]
NoRequest == [handler |-> "none"]
NoPending == [handler |-> "none"]

Row(table, key) == IF key \in DOMAIN table THEN table[key] ELSE NoRow

Put(table, key, row) ==
    [k \in DOMAIN table \cup {key} |-> IF k = key THEN row ELSE table[k]]

Remove(table, key) == [k \in DOMAIN table \ {key} |-> table[k]]

EmptyTable == << >>

Table(name) ==
    CASE name = "summoners" -> summoners
      [] name = "champions" -> champions
      [] name = "summoner_champion_stats" -> summoner_champion_stats
      [] name = "summoner_role_stats" -> summoner_role_stats
      [] name = "champion_best_summoners" -> champion_best_summoners

\* ----------------------------------------------------------- transactions
\* A run of the updater is one sql.Tx at the default isolation level (READ
\* COMMITTED): a statement sees the committed rows and the run's own
\* writes; a written row stays locked until the run commits or rolls back.

NoWrites == [summoners |-> EmptyTable, champions |-> EmptyTable,
             summoner_champion_stats |-> EmptyTable,
             summoner_role_stats |-> EmptyTable,
             champion_best_summoners |-> EmptyTable]

Idle == [pc |-> "idle", summonerID |-> 0, championID |-> 0, won |-> FALSE,
         kda |-> KDAOf(0, 0, 0), role |-> "",
         playedGames |-> 0, wins |-> 0, avgKDA |-> KDAOf(0, 0, 0),
         count |-> 0, rate |-> Zero, popularity |-> 0, writes |-> NoWrites]

NoReturn == [fn |-> "none", at |-> "none", summonerID |-> 0, championID |-> 0,
             won |-> FALSE, summoner |-> "none", champion |-> "none"]

\* tx.QueryRowContext: the row the run sees
TxRow(r, name, key) ==
    IF key \in DOMAIN tx[r].writes[name]
    THEN tx[r].writes[name][key]
    ELSE Row(Table(name), key)

\* the row is locked by another run's uncommitted write
Locked(r, name, key) ==
    \E o \in Slots \ {r} : key \in DOMAIN tx[o].writes[name]

\* tx.ExecContext: the write is held by the transaction until it commits
TxExec(r, name, key, row) ==
    [tx[r].writes EXCEPT ![name] = Put(@, key, row)]

ApplyWrites(table, ws) ==
    [k \in DOMAIN table \cup DOMAIN ws |->
        IF k \in DOMAIN ws THEN ws[k] ELSE table[k]]

\* tx.Commit: the writes of the run become the committed rows
TxCommit(r) ==
    /\ summoners' = ApplyWrites(summoners, tx[r].writes.summoners)
    /\ champions' = ApplyWrites(champions, tx[r].writes.champions)
    /\ summoner_champion_stats' =
           ApplyWrites(summoner_champion_stats, tx[r].writes.summoner_champion_stats)
    /\ summoner_role_stats' =
           ApplyWrites(summoner_role_stats, tx[r].writes.summoner_role_stats)
    /\ champion_best_summoners' =
           ApplyWrites(champion_best_summoners, tx[r].writes.champion_best_summoners)

TxRollbackLeaks(r) == TxCommit(r)

\* the deferred tx.Rollback of a run that returns before tx.Commit: none of
\* its writes reaches the committed rows
TxRollback(r) == UNCHANGED aggregates

\* The run of slot r returns err from fn ("summoner" for
\* UpdateSummonerStatistics, "champion" for UpdateChampionStatistics).
\* returned holds the results of the two calls of one match performance:
\* a return with the arguments of the previous return of the other function
\* completes that performance, any other return starts a new one; fn and
\* at are the function and the statement of the last return.
Return(r, fn, err) ==
    /\ tx' = [tx EXCEPT ![r] = Idle]
    /\ returned' =
         IF /\ returned.summonerID = tx[r].summonerID
            /\ returned.championID = tx[r].championID
            /\ returned.won = tx[r].won
            /\ returned[fn] = "none"
         THEN [returned EXCEPT !.fn = fn, !.at = tx[r].pc, ![fn] = err]
         ELSE [NoReturn EXCEPT !.fn = fn, !.at = tx[r].pc, ![fn] = err,
                               !.summonerID = tx[r].summonerID,
                               !.championID = tx[r].championID,
                               !.won = tx[r].won]

SummonerSteps == {"selSummoner", "selChampionStats", "upsertChampionStats",
                  "selRoleStats", "upsertRoleStats", "updSummoner",
                  "commitSummoner"}

\* a statement of the run fails (the 3 second context expires, the
\* connection drops): the run returns the error
Fail(r) ==
    /\ tx[r].pc # "idle"
    /\ Return(r, IF tx[r].pc \in SummonerSteps THEN "summoner" ELSE "champion",
              "fault")
    /\ TxRollback(r)
    /\ UNCHANGED <<matches, serial, started, committed, call, response, request, pending>>

\* ------------------------------------------- UpdateSummonerStatistics
Bit(b) == IF b THEN 1 ELSE 0

WinRateBad(wins, games) == Float(wins, games + 1)

\* winRate := float64(wins) / float64(playedGames)
WinRate(wins, games) == Float(wins, games)

\* averageKDA: each component of the sum over playedGames
AverageKDA(sum, games) ==
    KDAOf(sum.Kills \div games, sum.Deaths \div games, sum.Assists \div games)

AddKDA(a, b) ==
    KDAOf(a.Kills + b.Kills, a.Deaths + b.Deaths, a.Assists + b.Assists)

Others == <<matches, serial, started, committed, call, response, request, pending>>

\* m.DB.BeginTx
BeginSummoner(r, s, c, kda, role, won) ==
    /\ tx[r].pc = "idle"
    /\ tx' = [tx EXCEPT ![r] =
                [Idle EXCEPT !.pc = "selSummoner", !.summonerID = s,
                             !.championID = c, !.kda = kda, !.role = role,
                             !.won = won]]
    /\ started' = started + 1
    /\ UNCHANGED <<tables, serial, committed, returned, call, response, request, pending>>

\* SELECT count_of_played_games, win_rate, average_kda FROM summoners,
\* scanned into playedGames int, wins int, avgKDA KDA
SelSummoner(r) ==
    /\ tx[r].pc = "selSummoner"
    /\ LET row == TxRow(r, "summoners", tx[r].summonerID) IN
       IF row = NoRow \/ ScanIntoIntFails(row.win_rate)
       THEN /\ Return(r, "summoner", IF row = NoRow THEN "sql: no rows" ELSE "scan")
            /\ TxRollback(r)
       ELSE /\ tx' = [tx EXCEPT
                        ![r].pc = "selChampionStats",
                        ![r].playedGames = row.count_of_played_games + 1,
                        ![r].wins = ScanIntoInt(row.win_rate) + Bit(tx[r].won),
                        ![r].avgKDA = AddKDA(KDAScan(row.average_kda), tx[r].kda)]
            /\ UNCHANGED <<aggregates, returned>>
    /\ UNCHANGED Others

\* SELECT ... FROM summoner_champion_stats / summoner_role_stats: a missing
\* row reads as count 0, rate 0; then the count is incremented and the rate
\* recomputed
SelStats(r, pc, name, key, next) ==
    /\ tx[r].pc = pc
    /\ LET row == TxRow(r, name, key)
           old == IF row = NoRow
                  THEN [count_of_played_matches |-> 0, win_rate |-> Zero]
                  ELSE row
           count == old.count_of_played_matches + 1
       IN tx' = [tx EXCEPT ![r].pc = next,
                           ![r].count = count,
                           ![r].rate = Recompute(old.win_rate, count, Bit(tx[r].won))]
    /\ UNCHANGED <<aggregates, returned, Others>>

\* INSERT ... ON CONFLICT (key) DO UPDATE SET count_of_played_matches, win_rate
UpsertStats(r, pc, name, key, next) ==
    /\ tx[r].pc = pc
    /\ ~Locked(r, name, key)
    /\ tx' = [tx EXCEPT ![r].pc = next,
                        ![r].writes = TxExec(r, name, key,
                            [count_of_played_matches |-> tx[r].count,
                             win_rate |-> tx[r].rate])]
    /\ UNCHANGED <<aggregates, returned, Others>>

SelChampionStats(r) ==
    SelStats(r, "selChampionStats", "summoner_champion_stats",
             <<tx[r].summonerID, tx[r].championID>>, "upsertChampionStats")

UpsertChampionStats(r) ==
    UpsertStats(r, "upsertChampionStats", "summoner_champion_stats",
                <<tx[r].summonerID, tx[r].championID>>, "selRoleStats")

SelRoleStats(r) ==
    SelStats(r, "selRoleStats", "summoner_role_stats",
             <<tx[r].summonerID, tx[r].role>>, "upsertRoleStats")

UpsertRoleStats(r) ==
    UpsertStats(r, "upsertRoleStats", "summoner_role_stats",
                <<tx[r].summonerID, tx[r].role>>, "updSummoner")

\* UPDATE summoners SET count_of_played_games, win_rate, average_kda WHERE id
UpdSummoner(r) ==
    /\ tx[r].pc = "updSummoner"
    /\ ~Locked(r, "summoners", tx[r].summonerID)
    /\ LET row == TxRow(r, "summoners", tx[r].summonerID) IN
       tx' = [tx EXCEPT
                ![r].pc = "commitSummoner",
                ![r].writes =
                    IF row = NoRow THEN @
                    ELSE TxExec(r, "summoners", tx[r].summonerID,
                           [row EXCEPT
                              !.count_of_played_games = tx[r].playedGames,
                              !.win_rate = WinRate(tx[r].wins, tx[r].playedGames),
                              !.average_kda =
                                  KDAValue(AverageKDA(tx[r].avgKDA, tx[r].playedGames))])]
    /\ UNCHANGED <<aggregates, returned, Others>>

\* the arguments of the committed run, appended to those of its summoner
\* (UpdateSummonerStatistics) or of its champion (UpdateChampionStatistics)
Record(r, fn, id) ==
    [committed EXCEPT ![fn][id] =
        Append(@, [summonerID |-> tx[r].summonerID,
                   championID |-> tx[r].championID,
                   role |-> tx[r].role, won |-> tx[r].won])]

\* return tx.Commit()
CommitSummoner(r) ==
    /\ tx[r].pc = "commitSummoner"
    /\ TxCommit(r)
    /\ Return(r, "summoner", "nil")
    /\ committed' = Record(r, "summoner", tx[r].summonerID)
    /\ UNCHANGED <<matches, serial, started, call, response, request, pending>>

\* ------------------------------------------- UpdateChampionStatistics
\* m.DB.BeginTx
BeginChampion(r, c, s, won) ==
    /\ tx[r].pc = "idle"
    /\ tx' = [tx EXCEPT ![r] =
                [Idle EXCEPT !.pc = "selChampion", !.summonerID = s,
                             !.championID = c, !.won = won]]
    /\ started' = started + 1
    /\ UNCHANGED <<tables, serial, committed, returned, call, response, request, pending>>

\* SELECT count_of_played_matches, win_rate FROM champions, scanned into
\* matchHistoryCount int, wins int
SelChampion(r) ==
    /\ tx[r].pc = "selChampion"
    /\ LET row == TxRow(r, "champions", tx[r].championID) IN
       IF row = NoRow \/ ScanIntoIntFails(row.win_rate)
       THEN /\ Return(r, "champion", IF row = NoRow THEN "sql: no rows" ELSE "scan")
            /\ TxRollback(r)
       ELSE /\ tx' = [tx EXCEPT
                        ![r].pc = "selPopularity",
                        ![r].playedGames = row.count_of_played_matches + 1,
                        ![r].wins = ScanIntoInt(row.win_rate) + Bit(tx[r].won)]
            /\ UNCHANGED <<aggregates, returned>>
    /\ UNCHANGED Others

SelPopularityBad(r) ==
    /\ tx[r].pc = "selPopularity"
    /\ tx' = [tx EXCEPT ![r].pc = "updChampion",
                        ![r].popularity = tx[r].playedGames]
    /\ UNCHANGED <<aggregates, returned, Others>>

\* SELECT COUNT(DISTINCT summoner_id) FROM summoner_champion_stats
\* WHERE champion_id = $1
SelPopularity(r) ==
    /\ tx[r].pc = "selPopularity"
    /\ tx' = [tx EXCEPT
                ![r].pc = "updChampion",
                ![r].popularity =
                    Cardinality({k[1] : k \in {x \in DOMAIN summoner_champion_stats :
                                                  x[2] = tx[r].championID}})]
    /\ UNCHANGED <<aggregates, returned, Others>>

\* UPDATE champions SET count_of_played_matches, win_rate, popularity WHERE id
UpdChampion(r) ==
    /\ tx[r].pc = "updChampion"
    /\ ~Locked(r, "champions", tx[r].championID)
    /\ LET row == TxRow(r, "champions", tx[r].championID) IN
       tx' = [tx EXCEPT
                ![r].pc = "selSummonerStats",
                ![r].writes =
                    IF row = NoRow THEN @
                    ELSE TxExec(r, "champions", tx[r].championID,
                           [row EXCEPT
                              !.count_of_played_matches = tx[r].playedGames,
                              !.win_rate = WinRate(tx[r].wins, tx[r].playedGames),
                              !.popularity = Float(tx[r].popularity, 1)])]
    /\ UNCHANGED <<aggregates, returned, Others>>

SelSummonerStatsBad(r) ==
    /\ tx[r].pc = "selSummonerStats"
    /\ LET row == TxRow(r, "summoner_champion_stats",
                        <<tx[r].summonerID, tx[r].championID>>) IN
       tx' = [tx EXCEPT ![r].pc = "upsertBest",
                        ![r].rate = IF row = NoRow THEN Zero ELSE row.win_rate,
                        ![r].count = IF row = NoRow THEN 0
                                     ELSE row.count_of_played_matches]
    /\ UNCHANGED <<aggregates, returned, Others>>

\* SELECT win_rate, count_of_played_matches FROM summoner_champion_stats
\* WHERE summoner_id = $1 AND champion_id = $2
SelSummonerStats(r) ==
    /\ tx[r].pc = "selSummonerStats"
    /\ LET row == TxRow(r, "summoner_champion_stats",
                        <<tx[r].summonerID, tx[r].championID>>) IN
       IF row = NoRow
       THEN /\ Return(r, "champion", "sql: no rows")
            /\ TxRollback(r)
       ELSE /\ tx' = [tx EXCEPT ![r].pc = "upsertBest",
                                ![r].rate = row.win_rate,
                                ![r].count = row.count_of_played_matches]
            /\ UNCHANGED <<aggregates, returned>>
    /\ UNCHANGED Others

\* INSERT INTO champion_best_summoners ... ON CONFLICT (champion_id,
\* summoner_id) DO UPDATE SET win_rate, count_of_played_matches
UpsertBest(r) ==
    /\ tx[r].pc = "upsertBest"
    /\ ~Locked(r, "champion_best_summoners", <<tx[r].championID, tx[r].summonerID>>)
    /\ tx' = [tx EXCEPT
                ![r].pc = "commitChampion",
                ![r].writes = TxExec(r, "champion_best_summoners",
                                <<tx[r].championID, tx[r].summonerID>>,
                                [win_rate |-> tx[r].rate,
                                 count_of_played_matches |-> tx[r].count])]
    /\ UNCHANGED <<aggregates, returned, Others>>

\* return tx.Commit()
CommitChampion(r) ==
    /\ tx[r].pc = "commitChampion"
    /\ TxCommit(r)
    /\ Return(r, "champion", "nil")
    /\ committed' = Record(r, "champion", tx[r].championID)
    /\ UNCHANGED <<matches, serial, started, call, response, request, pending>>

\* ------------------------------------------------------- record stores
\* a row another transaction has written and not yet committed
RowLocked(name, key) == \E o \in Slots : key \in DOMAIN tx[o].writes[name]

SummonerInsertRowSwapped(summoner) ==
    [username |-> summoner.Region, region |-> summoner.Username,
     rating |-> 0, count_of_played_games |-> 0, win_rate |-> Zero,
     average_kda |-> KDAValue(KDAOf(0, 0, 0))]

\* SummonerModel.Insert: the aggregates are inserted as 0, whatever the
\* struct holds
SummonerInsertRow(summoner) ==
    [username |-> summoner.Username, region |-> summoner.Region,
     rating |-> 0, count_of_played_games |-> 0, win_rate |-> Zero,
     average_kda |-> KDAValue(KDAOf(0, 0, 0))]

\* ChampionModel.Insert: name and main_role; the other columns take their
\* DEFAULT 0
ChampionInsertRow(champion) ==
    [name |-> champion.Name, main_role |-> champion.MainRole,
     popularity |-> Zero, win_rate |-> Zero, ban_rate |-> Zero,
     count_of_played_matches |-> 0]

SummonerOf(id, row) ==
    [ID |-> id, Username |-> row.username, Region |-> row.region,
     Rating |-> row.rating, CountOfPlayedGames |-> row.count_of_played_games,
     WinRate |-> row.win_rate, AverageKDA |-> KDAScan(row.average_kda)]

ChampionOf(id, row) ==
    [ID |-> id, Name |-> row.name, MainRole |-> row.main_role,
     Popularity |-> row.popularity, WinRate |-> row.win_rate,
     BanRate |-> row.ban_rate]

Nil == [nil |-> TRUE]
ErrRecordNotFound == "record not found"

\* ------------------------------------------------------------- matches
\* a Team: the number of turrets, the usernames of its summoner
\* performances, its banned champions (the name, and the length of the
\* MatchHistory slice, which has the tag json:"-")
TeamOf(turrets, users, banned) ==
    [TurretsDestroyed |-> turrets, Summoners |-> users, BannedChampions |-> banned]

Banned(name, history) == [Name |-> name, MatchHistory |-> history]

JSONNull == [null |-> TRUE]

\* json.Marshal of a *Team
TeamValue(team) ==
    IF team = Nil THEN JSONNull
    ELSE [TurretsDestroyed |-> team.TurretsDestroyed,
          Summoners |-> team.Summoners,
          BannedChampions |-> [i \in DOMAIN team.BannedChampions |->
                                  [name |-> team.BannedChampions[i].Name]]]

\* Scan into a **Team: database/sql allocates the Team and calls Team.Scan,
\* which is json.Unmarshal; null leaves the zero Team
TeamScan(json) ==
    IF json = JSONNull THEN TeamOf(0, << >>, << >>)
    ELSE TeamOf(json.TurretsDestroyed, json.Summoners,
                [i \in DOMAIN json.BannedChampions |->
                    Banned(json.BannedChampions[i].name, 0)])

\* played_date timestamp(0) with time zone: the store rounds to the second
TicksPerSecond == 3

Timestamp0(t) ==
    ((2 * t + TicksPerSecond) \div (2 * TicksPerSecond)) * TicksPerSecond

\* the five columns MatchModel.Insert and MatchModel.Update write
MatchRow(match) ==
    [duration |-> match.Duration, result |-> match.Result,
     played_date |-> Timestamp0(match.PlayedDate),
     blue_team |-> TeamValue(match.BlueTeam),
     red_team |-> TeamValue(match.RedTeam)]

MatchOf(id, row) ==
    [ID |-> id, Duration |-> row.duration, Result |-> row.result,
     PlayedDate |-> row.played_date, BlueTeam |-> TeamScan(row.blue_team),
     RedTeam |-> TeamScan(row.red_team)]

\* the six columns SummonerModel.Update writes
SummonerUpdateRow(summoner) ==
    [username |-> summoner.Username, region |-> summoner.Region,
     rating |-> summoner.Rating,
     count_of_played_games |-> summoner.CountOfPlayedGames,
     win_rate |-> summoner.WinRate,
     average_kda |-> KDAValue(summoner.AverageKDA)]

\* the two columns ChampionModel.Update writes
ChampionUpdateRow(row, champion) ==
    [row EXCEPT !.name = champion.Name, !.main_role = champion.MainRole]

\* ------------------------------------------------------ SummonerModel
\* Each method is given as its effect on the tables and its result; the
\* action that makes the call records the result in the variable call.
Called(op, store, id, arg, err, out) ==
    [op |-> op, store |-> store, id |-> id, arg |-> arg, err |-> err, out |-> out]

\* INSERT INTO summoners ... VALUES ($1, $2, 0, 0, 0, averageKDAJSON)
\* RETURNING id, scanned into summoner.ID
SummonerInsert(summoner) ==
    /\ summoners' = Put(summoners, serial.summoners + 1, SummonerInsertRow(summoner))
    /\ serial' = [serial EXCEPT !.summoners = @ + 1]
    /\ UNCHANGED <<champions, matches, summoner_champion_stats,
                   summoner_role_stats, champion_best_summoners>>

SummonerGet(id) ==
    IF id < 1 THEN [err |-> ErrRecordNotFound, out |-> Nil]
    ELSE IF Row(summoners, id) = NoRow THEN [err |-> ErrRecordNotFound, out |-> Nil]
    ELSE [err |-> "nil", out |-> SummonerOf(id, summoners[id])]

\* UPDATE summoners SET (six columns) WHERE id: QueryRow(...).Err() is nil
\* also when no row has the id
SummonerUpdateErr(summoner) == "nil"

SummonerUpdate(summoner) ==
    /\ ~RowLocked("summoners", summoner.ID)
    /\ summoners' = IF summoner.ID \in DOMAIN summoners
                    THEN Put(summoners, summoner.ID, SummonerUpdateRow(summoner))
                    ELSE summoners
    /\ UNCHANGED <<champions, matches, summoner_champion_stats,
                   summoner_role_stats, champion_best_summoners, serial>>

SummonerDeleteErr(id) ==
    IF id < 1 THEN ErrRecordNotFound
    ELSE IF id \notin DOMAIN summoners THEN ErrRecordNotFound
    ELSE "nil"

SummonerDelete(id) ==
    /\ ~RowLocked("summoners", id)
    /\ summoners' = IF id < 1 THEN summoners ELSE Remove(summoners, id)
    /\ UNCHANGED <<champions, matches, summoner_champion_stats,
                   summoner_role_stats, champion_best_summoners, serial>>

\* ------------------------------------------------------ ChampionModel
\* INSERT INTO champions (name, main_role) ... RETURNING id, popularity,
\* win_rate, ban_rate, scanned into the struct
ChampionInsert(champion) ==
    /\ champions' = Put(champions, serial.champions + 1, ChampionInsertRow(champion))
    /\ serial' = [serial EXCEPT !.champions = @ + 1]
    /\ UNCHANGED <<summoners, matches, summoner_champion_stats,
                   summoner_role_stats, champion_best_summoners>>

ChampionGet(id) ==
    IF id < 1 THEN [err |-> ErrRecordNotFound, out |-> Nil]
    ELSE IF Row(champions, id) = NoRow THEN [err |-> ErrRecordNotFound, out |-> Nil]
    ELSE [err |-> "nil", out |-> ChampionOf(id, champions[id])]

ChampionUpdateErr(champion) == "nil"

ChampionUpdate(champion) ==
    /\ ~RowLocked("champions", champion.ID)
    /\ champions' = IF champion.ID \in DOMAIN champions
                    THEN Put(champions, champion.ID,
                             ChampionUpdateRow(champions[champion.ID], champion))
                    ELSE champions
    /\ UNCHANGED <<summoners, matches, summoner_champion_stats,
                   summoner_role_stats, champion_best_summoners, serial>>

ChampionDeleteErr(id) ==
    IF id < 1 THEN ErrRecordNotFound
    ELSE IF id \notin DOMAIN champions THEN ErrRecordNotFound
    ELSE "nil"

ChampionDelete(id) ==
    /\ ~RowLocked("champions", id)
    /\ champions' = IF id < 1 THEN champions ELSE Remove(champions, id)
    /\ UNCHANGED <<summoners, matches, summoner_champion_stats,
                   summoner_role_stats, champion_best_summoners, serial>>

\* --------------------------------------------------------- MatchModel
MatchInsert(match) ==
    /\ matches' = Put(matches, serial.matches + 1, MatchRow(match))
    /\ serial' = [serial EXCEPT !.matches = @ + 1]
    /\ UNCHANGED aggregates

MatchGet(id) ==
    IF id < 1 THEN [err |-> ErrRecordNotFound, out |-> Nil]
    ELSE IF Row(matches, id) = NoRow THEN [err |-> ErrRecordNotFound, out |-> Nil]
    ELSE [err |-> "nil", out |-> MatchOf(id, matches[id])]

MatchUpdateErr(match) == "nil"

MatchUpdate(match) ==
    /\ matches' = IF match.ID \in DOMAIN matches
                  THEN Put(matches, match.ID, MatchRow(match))
                  ELSE matches
    /\ UNCHANGED <<aggregates, serial>>

MatchDeleteErr(id) ==
    IF id < 1 THEN ErrRecordNotFound
    ELSE IF id \notin DOMAIN matches THEN ErrRecordNotFound
    ELSE "nil"

MatchDelete(id) ==
    /\ matches' = IF id < 1 THEN matches ELSE Remove(matches, id)
    /\ UNCHANGED <<aggregates, serial>>

\* ------------------------------------------------------------- inputs
SummonerStruct(id, username, region, rating, games, rate, kda) ==
    [ID |-> id, Username |-> username, Region |-> region, Rating |-> rating,
     CountOfPlayedGames |-> games, WinRate |-> rate, AverageKDA |-> kda]

ChampionStruct(id, name, role, popularity, rate, ban) ==
    [ID |-> id, Name |-> name, MainRole |-> role, Popularity |-> popularity,
     WinRate |-> rate, BanRate |-> ban]

MatchStruct(id, date, duration, result, blue, red) ==
    [ID |-> id, PlayedDate |-> date, Duration |-> duration, Result |-> result,
     BlueTeam |-> blue, RedTeam |-> red]

\* the struct createSummonerHandler builds (username and region only), and a
\* struct whose aggregates the caller has set
SummonerInputs(id) ==
    {SummonerStruct(id, "ahri", "euw", 0, 0, Zero, KDAOf(0, 0, 0)),
     SummonerStruct(id, "zed", "euw", 7, 2, Float(1, 2), KDAOf(3, 1, 2))}

ChampionInputs(id) ==
    {ChampionStruct(id, "Garen", "Top", Zero, Zero, Zero),
     ChampionStruct(id, "Lux", "Mid", Float(3, 1), Float(1, 2), Zero)}

TeamA == TeamOf(1, <<"ahri">>, << >>)
TeamB == TeamOf(0, <<"zed">>, <<Banned("Garen", 0)>>)
TeamC == TeamOf(2, <<"ahri", "zed">>, <<Banned("Garen", 1)>>)

MatchInputs(id) ==
    {MatchStruct(id, 3, 30, "blue", TeamA, TeamB),
     MatchStruct(id, 4, 45, "red", TeamC, TeamA)}

\* ids a caller may pass: 0 is below the minimum id, the largest is never
\* assigned
CallIds(max) == 0..(max + 1)

\* --------------------------------------------------------- store calls
Rest == <<tx, started, committed, returned, response, request, pending>>

CallInsert ==
    \/ \E in \in SummonerInputs(0) :
          /\ serial.summoners < MaxRecords
          /\ SummonerInsert(in)
          /\ call' = Called("Insert", "summoners", serial'.summoners, in, "nil",
                            [in EXCEPT !.ID = serial'.summoners])
          /\ UNCHANGED Rest
    \/ \E in \in ChampionInputs(0) :
          /\ serial.champions < MaxRecords
          /\ ChampionInsert(in)
          /\ call' = Called("Insert", "champions", serial'.champions, in, "nil",
                            ChampionOf(serial'.champions, ChampionInsertRow(in)))
          /\ UNCHANGED Rest
    \/ \E in \in MatchInputs(0) :
          /\ serial.matches < MaxRecords
          /\ MatchInsert(in)
          /\ call' = Called("Insert", "matches", serial'.matches, in, "nil",
                            [in EXCEPT !.ID = serial'.matches])
          /\ UNCHANGED Rest

CallGet ==
    /\ \/ \E id \in CallIds(MaxRecords) :
             call' = Called("Get", "summoners", id, Nil, SummonerGet(id).err,
                            SummonerGet(id).out)
       \/ \E id \in CallIds(MaxRecords) :
             call' = Called("Get", "champions", id, Nil, ChampionGet(id).err,
                            ChampionGet(id).out)
       \/ \E id \in CallIds(MaxRecords) :
             call' = Called("Get", "matches", id, Nil, MatchGet(id).err,
                            MatchGet(id).out)
    /\ UNCHANGED <<tables, serial, Rest>>

CallUpdate ==
    \/ \E id \in CallIds(MaxRecords) : \E in \in SummonerInputs(id) :
          /\ SummonerUpdate(in)
          /\ call' = Called("Update", "summoners", id, in, SummonerUpdateErr(in), Nil)
          /\ UNCHANGED Rest
    \/ \E id \in CallIds(MaxRecords) : \E in \in ChampionInputs(id) :
          /\ ChampionUpdate(in)
          /\ call' = Called("Update", "champions", id, in, ChampionUpdateErr(in), Nil)
          /\ UNCHANGED Rest
    \/ \E id \in CallIds(MaxRecords) : \E in \in MatchInputs(id) :
          /\ MatchUpdate(in)
          /\ call' = Called("Update", "matches", id, in, MatchUpdateErr(in), Nil)
          /\ UNCHANGED Rest

CallDelete ==
    \/ \E id \in CallIds(MaxRecords) :
          /\ SummonerDelete(id)
          /\ call' = Called("Delete", "summoners", id, Nil, SummonerDeleteErr(id), Nil)
          /\ UNCHANGED Rest
    \/ \E id \in CallIds(MaxRecords) :
          /\ ChampionDelete(id)
          /\ call' = Called("Delete", "champions", id, Nil, ChampionDeleteErr(id), Nil)
          /\ UNCHANGED Rest
    \/ \E id \in CallIds(MaxRecords) :
          /\ MatchDelete(id)
          /\ call' = Called("Delete", "matches", id, Nil, MatchDeleteErr(id), Nil)
          /\ UNCHANGED Rest

\* ---------------------------------------------------------------- Init
NoRuns == [summoner |-> [s \in SummonerIds |-> << >>],
           champion |-> [c \in ChampionIds |-> << >>]]

Init ==
    /\ summoners = EmptyTable
    /\ champions = EmptyTable
    /\ matches = EmptyTable
    /\ summoner_champion_stats = EmptyTable
    /\ summoner_role_stats = EmptyTable
    /\ champion_best_summoners = EmptyTable
    /\ serial = [summoners |-> 0, champions |-> 0, matches |-> 0]
    /\ tx = [r \in Slots |-> Idle]
    /\ started = 0
    /\ committed = NoRuns
    /\ returned = NoReturn
    /\ call = NoCall
    /\ response = NoResponse
    /\ request = NoRequest
    /\ pending = NoPending

\* the record stores, called one call at a time
NextStore == CallInsert \/ CallGet \/ CallUpdate \/ CallDelete

SpecStore == Init /\ [][NextStore]_vars

\* the statistics updater, called from up to MaxSlots goroutines at a time,
\* over summoners and champions that createSummonerHandler and
\* createChampionHandler have inserted
Active(r) == tx[r].pc # "idle"

NewSummoner == SummonerStruct(0, "ahri", "euw", 0, 0, Zero, KDAOf(0, 0, 0))
NewChampion == ChampionStruct(0, "Garen", "Top", Zero, Zero, Zero)

InitStats ==
    /\ summoners = [id \in SummonerIds |-> SummonerInsertRow(NewSummoner)]
    /\ champions = [id \in ChampionIds |-> ChampionInsertRow(NewChampion)]
    /\ matches = EmptyTable
    /\ summoner_champion_stats = EmptyTable
    /\ summoner_role_stats = EmptyTable
    /\ champion_best_summoners = EmptyTable
    /\ serial = [summoners |-> MaxSummoners, champions |-> MaxChampions, matches |-> 0]
    /\ tx = [r \in Slots |-> Idle]
    /\ started = 0
    /\ committed = NoRuns
    /\ returned = NoReturn
    /\ call = NoCall
    /\ response = NoResponse
    /\ request = NoRequest
    /\ pending = NoPending

\* a new run takes the first free slot
Free(r) == ~Active(r) /\ \A o \in 1..(r - 1) : Active(o)

Begin(r, ss, cs, kdas, roles) ==
    \/ \E s \in ss, c \in cs, kda \in kdas, role \in roles, won \in BOOLEAN :
          BeginSummoner(r, s, c, kda, role, won)
    \/ \E c \in cs, s \in ss, won \in BOOLEAN :
          BeginChampion(r, c, s, won)

Step(r) ==
    \/ SelSummoner(r)
    \/ SelChampionStats(r)
    \/ UpsertChampionStats(r)
    \/ SelRoleStats(r)
    \/ UpsertRoleStats(r)
    \/ UpdSummoner(r)
    \/ CommitSummoner(r)
    \/ SelChampion(r)
    \/ SelPopularity(r)
    \/ UpdChampion(r)
    \/ SelSummonerStats(r)
    \/ UpsertBest(r)
    \/ CommitChampion(r)

NextStats ==
    \/ \E r \in Slots :
          /\ started < MaxStarts
          /\ Free(r)
          /\ Begin(r, SummonerIds, {1}, {KDAOf(3, 1, 2)}, {"Top"})
    \/ \E r \in Slots : Step(r)
    \/ \E r \in Slots : Fail(r)

SpecStats == InitStats /\ [][NextStats]_vars

\* the updater called by one goroutine: a run begins when no other is active
NextSeq ==
    \/ \E r \in Slots :
          /\ started < MaxSeqStarts
          /\ \A o \in Slots : ~Active(o)
          /\ Free(r)
          /\ Begin(r, {1}, {1}, MatchKDAs, Roles)
    \/ \E r \in Slots : Step(r)
    \/ \E r \in Slots : Fail(r)

SpecSeq == InitStats /\ [][NextSeq]_vars

\* the updater called by one goroutine for the performances of every
\* summoner with one champion
NextSeqSummoners ==
    \/ \E r \in Slots :
          /\ started < MaxSeqStarts
          /\ \A o \in Slots : ~Active(o)
          /\ Free(r)
          /\ Begin(r, SummonerIds, ChampionIds, {KDAOf(3, 1, 2)}, {"Top"})
    \/ \E r \in Slots : Step(r)
    \/ \E r \in Slots : Fail(r)

SpecSeqSummoners == InitStats /\ [][NextSeqSummoners]_vars

\* ------------------------------------------------------ request handlers
\* validator.Check: the key is reported when the condition is false
Check(ok, key) == IF ok THEN {} ELSE {key}

ValidateSummoner(summoner) ==
    Check(summoner.Username # "", "username") \cup Check(summoner.Region # "", "region")

ValidateChampion(champion) ==
    Check(champion.Name # "", "name")
        \cup Check(champion.MainRole # "", "main_role")
        \cup Check(champion.Name # "Champion", "name")

ValidateMatch(match) ==
    Check(match.Result # "", "result")
        \cup Check(match.Duration > 0, "duration")
        \cup Check(match.BlueTeam # Nil, "blue_team")
        \cup Check(match.RedTeam # Nil, "red_team")

StatusCreated == 201
StatusOK == 200
StatusBadRequest == 400
StatusInternalServerError == 500

\* the status each response helper of the application writes
HelperStatus(helper) ==
    CASE helper = "notFoundResponse" -> 404
      [] helper = "failedValidationResponse" -> 422
      [] helper = "badRequestResponse" -> 400
      [] helper = "serverErrorResponse" -> 500

\* the helper that writes the response, its status (the one the handler
\* passes to app.writeJSON or http.Error, else the helper's own) and the body
Reply(handler, helper, status, body) ==
    [handler |-> handler, reply |-> helper,
     status |-> IF helper \in {"writeJSON", "http.Error", "Encode"} THEN status
                ELSE HelperStatus(helper),
     body |-> body]

\* a request: the handler the router chose, the :id parameter of the path
\* (Nil when the route has none) and the decoded body (Nil when it has none
\* or app.readJSON fails)
Request(handler, param, body) == [handler |-> handler, param |-> param, body |-> body]

\* the :id parameter as it is written in the path
Param(numeric, value) == [numeric |-> numeric, value |-> value]

\* app.readIDParam: the id, or an error when the parameter is not a number
\* or is below 1
ReadIDParam(param) ==
    IF param.numeric /\ param.value >= 1
    THEN [err |-> "nil", id |-> param.value]
    ELSE [err |-> "invalid id parameter", id |-> 0]

\* a team the body does not mention decodes to the zero Team of the input
\* struct, whose address the handler takes
Absent == [absent |-> TRUE]
ZeroTeam == TeamOf(0, << >>, << >>)
Decoded(team) == IF team = Absent THEN ZeroTeam ELSE team

NoAggregateRuns == <<tx, started, committed, returned, call, pending>>

\* POST /v1/summoners.  body is the decoded input, or Nil when app.readJSON
\* fails; fails is whether the statement of Insert fails.
createSummonerHandler(body, fails) ==
    LET summoner ==
            SummonerStruct(0, body.Username, body.Region, 0, 0, Zero, KDAOf(0, 0, 0))
    IN
    /\ request' = Request("createSummonerHandler", Nil, body)
    /\ IF body = Nil
       THEN /\ response' = Reply("createSummonerHandler", "badRequestResponse", 0, Nil)
            /\ UNCHANGED <<tables, serial>>
       ELSE IF ValidateSummoner(summoner) # {}
       THEN /\ response' = Reply("createSummonerHandler", "failedValidationResponse",
                                 0, ValidateSummoner(summoner))
            /\ UNCHANGED <<tables, serial>>
       ELSE IF fails
       THEN /\ response' = Reply("createSummonerHandler", "serverErrorResponse", 0, Nil)
            /\ UNCHANGED <<tables, serial>>
       ELSE /\ serial.summoners < MaxRecords
            /\ SummonerInsert(summoner)
            /\ response' = Reply("createSummonerHandler", "writeJSON", StatusCreated,
                                 [summoner EXCEPT !.ID = serial'.summoners])
    /\ UNCHANGED NoAggregateRuns

\* POST /v1/champions
createChampionHandler(body, fails) ==
    LET champion == ChampionStruct(0, body.Name, body.MainRole, Zero, Zero, Zero)
    IN
    /\ request' = Request("createChampionHandler", Nil, body)
    /\ IF body = Nil
       THEN /\ response' = Reply("createChampionHandler", "badRequestResponse", 0, Nil)
            /\ UNCHANGED <<tables, serial>>
       ELSE IF ValidateChampion(champion) # {}
       THEN /\ response' = Reply("createChampionHandler", "failedValidationResponse",
                                 0, ValidateChampion(champion))
            /\ UNCHANGED <<tables, serial>>
       ELSE IF fails
       THEN /\ response' = Reply("createChampionHandler", "serverErrorResponse", 0, Nil)
            /\ UNCHANGED <<tables, serial>>
       ELSE /\ serial.champions < MaxRecords
            /\ ChampionInsert(champion)
            /\ response' = Reply("createChampionHandler", "writeJSON", StatusCreated,
                                 ChampionOf(serial'.champions, ChampionInsertRow(champion)))
    /\ UNCHANGED NoAggregateRuns

\* POST /v1/matches: the match is validated and inserted; the handler makes
\* no other call on app.models.  BlueTeam and RedTeam are the addresses of
\* the input's teams.
createMatchHandler(body, fails) ==
    LET match == MatchStruct(0, body.PlayedDate, body.Duration, body.Result,
                             Decoded(body.BlueTeam), Decoded(body.RedTeam))
    IN
    /\ request' = Request("createMatchHandler", Nil, body)
    /\ IF body = Nil
       THEN /\ response' = Reply("createMatchHandler", "badRequestResponse", 0, Nil)
            /\ UNCHANGED <<tables, serial>>
       ELSE IF ValidateMatch(match) # {}
       THEN /\ response' = Reply("createMatchHandler", "failedValidationResponse",
                                 0, ValidateMatch(match))
            /\ UNCHANGED <<tables, serial>>
       ELSE IF fails
       THEN /\ response' = Reply("createMatchHandler", "serverErrorResponse", 0, Nil)
            /\ UNCHANGED <<tables, serial>>
       ELSE /\ serial.matches < MaxRecords
            /\ MatchInsert(match)
            /\ response' = Reply("createMatchHandler", "writeJSON", StatusCreated,
                                 [match EXCEPT !.ID = serial'.matches])
    /\ UNCHANGED NoAggregateRuns

ShowNotFoundAsError(handler, param, got, fails) ==
    /\ request' = Request(handler, param, Nil)
    /\ response' =
         IF ReadIDParam(param).err # "nil" \/ fails \/ got.err = ErrRecordNotFound
         THEN Reply(handler, "serverErrorResponse", 0, Nil)
         ELSE Reply(handler, "writeJSON", StatusOK, got.out)
    /\ UNCHANGED <<tables, serial, NoAggregateRuns>>

\* GET /v1/{summoners,champions,matches}/:id.  got is the result of the
\* store's Get; fails is whether its query fails.
Show(handler, param, got, fails) ==
    /\ request' = Request(handler, param, Nil)
    /\ response' =
         IF ReadIDParam(param).err # "nil"
         THEN Reply(handler, "notFoundResponse", 0, Nil)
         ELSE IF fails
         THEN Reply(handler, "serverErrorResponse", 0, Nil)
         ELSE IF got.err = ErrRecordNotFound
         THEN Reply(handler, "notFoundResponse", 0, Nil)
         ELSE Reply(handler, "writeJSON", StatusOK, got.out)
    /\ UNCHANGED <<tables, serial, NoAggregateRuns>>

showSummonerHandler(param, fails) ==
    Show("showSummonerHandler", param, SummonerGet(ReadIDParam(param).id), fails)

showChampionHandler(param, fails) ==
    Show("showChampionHandler", param, ChampionGet(ReadIDParam(param).id), fails)

showMatchHandler(param, fails) ==
    Show("showMatchHandler", param, MatchGet(ReadIDParam(param).id), fails)

\* DELETE /v1/summoners/:id
deleteSummonerHandler(param, fails) ==
    LET id == ReadIDParam(param).id IN
    /\ request' = Request("deleteSummonerHandler", param, Nil)
    /\ IF ReadIDParam(param).err # "nil"
       THEN /\ response' = Reply("deleteSummonerHandler", "notFoundResponse", 0, Nil)
            /\ UNCHANGED <<tables, serial>>
       ELSE IF fails
       THEN /\ response' = Reply("deleteSummonerHandler", "serverErrorResponse", 0, Nil)
            /\ UNCHANGED <<tables, serial>>
       ELSE IF SummonerDeleteErr(id) = ErrRecordNotFound
       THEN /\ response' = Reply("deleteSummonerHandler", "notFoundResponse", 0, Nil)
            /\ UNCHANGED <<tables, serial>>
       ELSE /\ SummonerDelete(id)
            /\ response' = Reply("deleteSummonerHandler", "writeJSON", StatusOK,
                                 "summoner successfully deleted")
    /\ UNCHANGED NoAggregateRuns

\* DELETE /v1/champions/:id
deleteChampionHandler(param, fails) ==
    LET id == ReadIDParam(param).id IN
    /\ request' = Request("deleteChampionHandler", param, Nil)
    /\ IF ReadIDParam(param).err # "nil"
       THEN /\ response' = Reply("deleteChampionHandler", "notFoundResponse", 0, Nil)
            /\ UNCHANGED <<tables, serial>>
       ELSE IF fails
       THEN /\ response' = Reply("deleteChampionHandler", "serverErrorResponse", 0, Nil)
            /\ UNCHANGED <<tables, serial>>
       ELSE IF ChampionDeleteErr(id) = ErrRecordNotFound
       THEN /\ response' = Reply("deleteChampionHandler", "notFoundResponse", 0, Nil)
            /\ UNCHANGED <<tables, serial>>
       ELSE /\ ChampionDelete(id)
            /\ response' = Reply("deleteChampionHandler", "writeJSON", StatusOK,
                                 "Champion successfully deleted")
    /\ UNCHANGED NoAggregateRuns

\* DELETE /v1/matches/:id
deleteMatchHandler(param, fails) ==
    LET id == ReadIDParam(param).id IN
    /\ request' = Request("deleteMatchHandler", param, Nil)
    /\ IF ReadIDParam(param).err # "nil"
       THEN /\ response' = Reply("deleteMatchHandler", "notFoundResponse", 0, Nil)
            /\ UNCHANGED <<tables, serial>>
       ELSE IF fails
       THEN /\ response' = Reply("deleteMatchHandler", "serverErrorResponse", 0, Nil)
            /\ UNCHANGED <<tables, serial>>
       ELSE IF MatchDeleteErr(id) = ErrRecordNotFound
       THEN /\ response' = Reply("deleteMatchHandler", "notFoundResponse", 0, Nil)
            /\ UNCHANGED <<tables, serial>>
       ELSE /\ MatchDelete(id)
            /\ response' = Reply("deleteMatchHandler", "writeJSON", StatusOK,
                                 "match successfully deleted")
    /\ UNCHANGED NoAggregateRuns

Calls == <<tx, started, committed, returned, call>>

\* PUT /v1/{summoners,champions,matches}/:id up to the call of Update: the
\* id is read, the record is fetched with Get, the body is decoded into the
\* fetched struct (edited) and validated (errors).  A request that passes
\* waits in pending for its Update.
Edit(handler, param, body, got, fails, edited, errors) ==
    /\ pending = NoPending
    /\ request' = Request(handler, param, body)
    /\ IF ReadIDParam(param).err # "nil"
       THEN /\ response' = Reply(handler, "notFoundResponse", 0, Nil)
            /\ UNCHANGED pending
       ELSE IF fails
       THEN /\ response' = Reply(handler, "serverErrorResponse", 0, Nil)
            /\ UNCHANGED pending
       ELSE IF got.err = ErrRecordNotFound
       THEN /\ response' = Reply(handler, "notFoundResponse", 0, Nil)
            /\ UNCHANGED pending
       ELSE IF body = Nil
       THEN /\ response' = Reply(handler, "badRequestResponse", 0, Nil)
            /\ UNCHANGED pending
       ELSE IF errors # {}
       THEN /\ response' = Reply(handler, "failedValidationResponse", 0, errors)
            /\ UNCHANGED pending
       ELSE /\ pending' = [handler |-> handler, param |-> param, body |-> body,
                           record |-> edited]
            /\ UNCHANGED response
    /\ UNCHANGED <<tables, serial, Calls>>

\* updateSummonerHandler: summoner.Username and summoner.Region are set
\* from the input, the other fields are those Get returned
updateSummonerGet(param, body, fails) ==
    LET got == SummonerGet(ReadIDParam(param).id)
        summoner == [got.out EXCEPT !.Username = body.Username,
                                    !.Region = body.Region]
    IN Edit("updateSummonerHandler", param, body, got, fails, summoner,
            ValidateSummoner(summoner))

\* app.models.Summoners.Update(summoner) and the response
updateSummonerUpdate(fails) ==
    /\ pending.handler = "updateSummonerHandler"
    /\ request' = Request(pending.handler, pending.param, pending.body)
    /\ pending' = NoPending
    /\ IF fails
       THEN /\ response' = Reply(pending.handler, "serverErrorResponse", 0, Nil)
            /\ UNCHANGED <<tables, serial>>
       ELSE /\ SummonerUpdate(pending.record)
            /\ response' = Reply(pending.handler, "writeJSON", StatusOK, pending.record)
    /\ UNCHANGED Calls

\* updateChampionHandler: champion.Name and champion.MainRole are set from
\* the input
updateChampionGet(param, body, fails) ==
    LET got == ChampionGet(ReadIDParam(param).id)
        champion == [got.out EXCEPT !.Name = body.Name, !.MainRole = body.MainRole]
    IN Edit("updateChampionHandler", param, body, got, fails, champion,
            ValidateChampion(champion))

updateChampionUpdate(fails) ==
    /\ pending.handler = "updateChampionHandler"
    /\ request' = Request(pending.handler, pending.param, pending.body)
    /\ pending' = NoPending
    /\ IF fails
       THEN /\ response' = Reply(pending.handler, "serverErrorResponse", 0, Nil)
            /\ UNCHANGED <<tables, serial>>
       ELSE /\ ChampionUpdate(pending.record)
            /\ response' = Reply(pending.handler, "writeJSON", StatusOK, pending.record)
    /\ UNCHANGED Calls

updateMatchGetBad(param, body, fails) ==
    LET got == MatchGet(ReadIDParam(param).id)
        match == [got.out EXCEPT !.Duration = body.Duration,
                                 !.Result = body.Result,
                                 !.PlayedDate = body.PlayedDate,
                                 !.BlueTeam = Decoded(body.BlueTeam),
                                 !.RedTeam = Decoded(body.RedTeam)]
    IN Edit("updateMatchHandler", param, body, got, fails, match,
            ValidateMatch(match))

\* updateMatchHandler: match.Duration, match.Result and match.PlayedDate
\* are set from the input; the teams of the input are not used
updateMatchGet(param, body, fails) ==
    LET got == MatchGet(ReadIDParam(param).id)
        match == [got.out EXCEPT !.Duration = body.Duration,
                                 !.Result = body.Result,
                                 !.PlayedDate = body.PlayedDate]
    IN Edit("updateMatchHandler", param, body, got, fails, match,
            ValidateMatch(match))

updateMatchUpdate(fails) ==
    /\ pending.handler = "updateMatchHandler"
    /\ request' = Request(pending.handler, pending.param, pending.body)
    /\ pending' = NoPending
    /\ IF fails
       THEN /\ response' = Reply(pending.handler, "serverErrorResponse", 0, Nil)
            /\ UNCHANGED <<tables, serial>>
       ELSE /\ MatchUpdate(pending.record)
            /\ response' = Reply(pending.handler, "writeJSON", StatusOK, pending.record)
    /\ UNCHANGED Calls

\* ------------------------------------------------------------- GetAll
\* LOWER() of the texts of the model
Lower(text) ==
    CASE text = "Ahri" -> "ahri"
      [] text = "AHRI" -> "ahri"
      [] text = "EUW" -> "euw"
      [] text = "Garen" -> "garen"
      [] text = "GAREN" -> "garen"
      [] text = "Lux" -> "lux"
      [] text = "Top" -> "top"
      [] text = "TOP" -> "top"
      [] text = "Mid" -> "mid"
      [] OTHER -> text

\* the place of a text in the collation of the database
TextRank(text) ==
    CASE text = "" -> 0
      [] text = "ahri" -> 1
      [] text = "Ahri" -> 2
      [] text = "Garen" -> 3
      [] text = "Lux" -> 4
      [] text = "Mid" -> 5
      [] text = "Top" -> 6
      [] text = "euw" -> 7
      [] text = "na" -> 8
      [] text = "zed" -> 9

\* Filters.sortColumn: the sort value without its "-"
SortColumn(filters) ==
    CASE filters.Sort \in {"id", "-id"} -> "id"
      [] filters.Sort \in {"username", "-username"} -> "username"
      [] filters.Sort \in {"region", "-region"} -> "region"
      [] filters.Sort \in {"name", "-name"} -> "name"
      [] filters.Sort \in {"main_role", "-main_role"} -> "main_role"
      [] filters.Sort \in {"duration"} -> "duration"

\* Filters.sortDirection: DESC for a sort value that begins with "-"
SortDirection(filters) ==
    IF filters.Sort \in {"-id", "-username", "-region", "-name", "-main_role"}
    THEN "DESC" ELSE "ASC"

Limit(filters) == filters.PageSize

OffsetBad(filters) == filters.Page * filters.PageSize

Offset(filters) == (filters.Page - 1) * filters.PageSize

FiltersOf(page, size, sort, safelist) ==
    [Page |-> page, PageSize |-> size, Sort |-> sort, SortSafelist |-> safelist]

OrderByBad(ka, ida, kb, idb, direction) ==
    IF ka # kb
    THEN IF direction = "ASC" THEN ka < kb ELSE ka > kb
    ELSE ida > idb

\* ORDER BY <column> <direction>, id ASC: the row with key ka and id ida
\* comes before the row with key kb and id idb
OrderBy(ka, ida, kb, idb, direction) ==
    IF ka # kb
    THEN IF direction = "ASC" THEN ka < kb ELSE ka > kb
    ELSE ida < idb

\* the ids in the order of ORDER BY; key maps each id to its sort key
RECURSIVE Ordered(_, _, _)
Ordered(ids, key, direction) ==
    IF ids = {} THEN << >>
    ELSE LET first == CHOOSE a \in ids :
                         \A b \in ids \ {a} : OrderBy(key[a], a, key[b], b, direction)
         IN <<first>> \o Ordered(ids \ {first}, key, direction)

\* LIMIT limit OFFSET offset
LimitOffset(rows, limit, offset) ==
    SubSeq(rows, offset + 1, IF offset + limit < Len(rows) THEN offset + limit ELSE Len(rows))

SummonerKey(id, column) ==
    CASE column = "id" -> id
      [] column = "username" -> TextRank(summoners[id].username)
      [] column = "region" -> TextRank(summoners[id].region)

\* SummonerModel.GetAll
SummonerGetAll(username, region, filters) ==
    LET ids == {id \in DOMAIN summoners :
                  /\ (Lower(summoners[id].username) = Lower(username) \/ username = "")
                  /\ (Lower(summoners[id].region) = Lower(region) \/ region = "")}
        key == [id \in ids |-> SummonerKey(id, SortColumn(filters))]
        page == LimitOffset(Ordered(ids, key, SortDirection(filters)),
                            Limit(filters), Offset(filters))
    IN [i \in DOMAIN page |-> SummonerOf(page[i], summoners[page[i]])]

ChampionKey(id, column) ==
    CASE column = "id" -> id
      [] column = "name" -> TextRank(champions[id].name)
      [] column = "main_role" -> TextRank(champions[id].main_role)

\* ChampionModel.GetAll
ChampionGetAll(name, role, filters) ==
    LET ids == {id \in DOMAIN champions :
                  /\ (Lower(champions[id].name) = Lower(name) \/ name = "")
                  /\ (Lower(champions[id].main_role) = Lower(role) \/ role = "")}
        key == [id \in ids |-> ChampionKey(id, SortColumn(filters))]
        page == LimitOffset(Ordered(ids, key, SortDirection(filters)),
                            Limit(filters), Offset(filters))
    IN [i \in DOMAIN page |-> ChampionOf(page[i], champions[page[i]])]

MatchKey(id, column) ==
    CASE column = "id" -> id
      [] column = "duration" -> matches[id].duration

\* MatchModel.GetAll
MatchGetAll(filters) ==
    LET ids == DOMAIN matches
        key == [id \in ids |-> MatchKey(id, SortColumn(filters))]
        page == LimitOffset(Ordered(ids, key, SortDirection(filters)),
                            Limit(filters), Offset(filters))
    IN [i \in DOMAIN page |-> MatchOf(page[i], matches[page[i]])]

\* ----------------------------------------------------- list handlers
\* data.ValidateFilters: page and page size above 0, the sort value in the
\* safelist
ValidateFilters(filters) ==
    Check(filters.Page > 0, "page")
        \cup Check(filters.PageSize > 0, "page_size")
        \cup Check(filters.Sort \in filters.SortSafelist, "sort")

\* GET /v1/{summoners,champions,matches}: args are the query parameters,
\* rows the result of GetAll, fails is whether its query fails
List(handler, args, filters, rows, fails) ==
    /\ request' = Request(handler, Nil, args)
    /\ response' =
         IF ValidateFilters(filters) # {}
         THEN Reply(handler, "failedValidationResponse", 0, ValidateFilters(filters))
         ELSE IF fails
         THEN Reply(handler, "serverErrorResponse", 0, Nil)
         ELSE Reply(handler, "writeJSON", StatusOK, rows)
    /\ UNCHANGED <<tables, serial, NoAggregateRuns>>

SummonerSortSafelist == {"id", "username", "region", "-id", "-username", "-region"}

listSummonersHandler(username, region, page, size, sort, fails) ==
    LET filters == FiltersOf(page, size, sort, SummonerSortSafelist) IN
    List("listSummonersHandler",
         [username |-> username, region |-> region, page |-> page,
          page_size |-> size, sort |-> sort],
         filters, SummonerGetAll(username, region, filters), fails)

ChampionSortSafelist == {"id", "name", "main_role", "-id", "-name", "-main_role"}

listChampionsHandler(name, role, page, size, sort, fails) ==
    LET filters == FiltersOf(page, size, sort, ChampionSortSafelist) IN
    List("listChampionsHandler",
         [name |-> name, main_role |-> role, page |-> page,
          page_size |-> size, sort |-> sort],
         filters, ChampionGetAll(name, role, filters), fails)

MatchSortSafelist == {"id", "duration", "result", "played_date", "blue_team", "red_team"}

listMatchesHandler(page, size, sort, fails) ==
    LET filters == FiltersOf(page, size, sort, MatchSortSafelist) IN
    List("listMatchesHandler", [page |-> page, page_size |-> size, sort |-> sort],
         filters, MatchGetAll(filters), fails)

\* GET /v1/matches/:id/summoners: strconv.Atoi takes any number; the rows
\* of match_performance joined with summoners and champions.  No statement
\* of the program writes match_performance, so the join has no row.
getSummonersByMatch(param, fails) ==
    /\ request' = Request("getSummonersByMatch", param, Nil)
    /\ response' =
         IF ~param.numeric
         THEN Reply("getSummonersByMatch", "http.Error", StatusBadRequest,
                    "Invalid match ID")
         ELSE IF fails
         THEN Reply("getSummonersByMatch", "http.Error", StatusInternalServerError,
                    "Query error")
         ELSE Reply("getSummonersByMatch", "Encode", StatusOK, << >>)
    /\ UNCHANGED <<tables, serial, NoAggregateRuns>>

\* ------------------------------------------------- GetAll, called
\* GetAll of the summoners and of the champions, called over stores that
\* createSummonerHandler, createChampionHandler and the delete handlers
\* have left: up to MaxListed records with fresh statistics.
MaxListed == 3
MaxPage == 2
MaxPageSize == 2

ListedIds == 1 .. MaxListed

ListedSummoners ==
    {SummonerStruct(0, "ahri", "euw", 0, 0, Zero, KDAOf(0, 0, 0)),
     SummonerStruct(0, "Ahri", "na", 0, 0, Zero, KDAOf(0, 0, 0)),
     SummonerStruct(0, "zed", "euw", 0, 0, Zero, KDAOf(0, 0, 0))}

ListedChampions ==
    {ChampionStruct(0, "Garen", "Top", Zero, Zero, Zero),
     ChampionStruct(0, "Lux", "Mid", Zero, Zero, Zero)}

InitList ==
    /\ \E ids \in SUBSET ListedIds :
          \/ /\ \E rows \in [ids -> ListedSummoners] :
                   summoners = [id \in ids |-> SummonerInsertRow(rows[id])]
             /\ champions = EmptyTable
             /\ serial = [summoners |-> MaxListed, champions |-> 0, matches |-> 0]
          \/ /\ ids # {}
             /\ \E rows \in [ids -> ListedChampions] :
                   champions = [id \in ids |-> ChampionInsertRow(rows[id])]
             /\ summoners = EmptyTable
             /\ serial = [summoners |-> 0, champions |-> MaxListed, matches |-> 0]
    /\ matches = EmptyTable
    /\ summoner_champion_stats = EmptyTable
    /\ summoner_role_stats = EmptyTable
    /\ champion_best_summoners = EmptyTable
    /\ tx = [r \in Slots |-> Idle]
    /\ started = 0
    /\ committed = NoRuns
    /\ returned = NoReturn
    /\ call = NoCall
    /\ response = NoResponse
    /\ request = NoRequest
    /\ pending = NoPending

\* the arguments of a GetAll call: the two filter values and the Filters
\* that passed ValidateFilters
GetAllArgs(first, second, filters) ==
    [first |-> first, second |-> second, filters |-> filters]

CallSummonerGetAll ==
    \E by \in {<<"", "">>, <<"AHRI", "">>, <<"", "EUW">>},
       page \in 1 .. MaxPage, size \in 1 .. MaxPageSize,
       sort \in SummonerSortSafelist :
       LET filters == FiltersOf(page, size, sort, SummonerSortSafelist) IN
       /\ ValidateFilters(filters) = {}
       /\ call' = Called("GetAll", "summoners", 0, GetAllArgs(by[1], by[2], filters),
                         "nil", SummonerGetAll(by[1], by[2], filters))
       /\ UNCHANGED <<tables, serial, Rest>>

CallChampionGetAll ==
    \E by \in {<<"", "">>, <<"GAREN", "">>, <<"", "mid">>},
       page \in 1 .. MaxPage, size \in 1 .. MaxPageSize,
       sort \in ChampionSortSafelist :
       LET filters == FiltersOf(page, size, sort, ChampionSortSafelist) IN
       /\ ValidateFilters(filters) = {}
       /\ call' = Called("GetAll", "champions", 0, GetAllArgs(by[1], by[2], filters),
                         "nil", ChampionGetAll(by[1], by[2], filters))
       /\ UNCHANGED <<tables, serial, Rest>>

NextList == CallSummonerGetAll \/ CallChampionGetAll

SpecList == InitList /\ [][NextList]_vars

\* ------------------------------------------------------------ requests
SummonerBody(username, region) == [Username |-> username, Region |-> region]

SummonerBodies ==
    {Nil, SummonerBody("ahri", "")}
        \cup {SummonerBody(username, region) :
                 username \in Usernames \cup {""}, region \in Regions}

ChampionBody(name, role) == [Name |-> name, MainRole |-> role]

ChampionBodies ==
    {Nil, ChampionBody("Garen", ""), ChampionBody("Champion", "Mid")}
        \cup {ChampionBody(name, "Top") : name \in ChampionNames \cup {""}}

MatchBody(date, duration, result, blue, red) ==
    [PlayedDate |-> date, Duration |-> duration, Result |-> result,
     BlueTeam |-> blue, RedTeam |-> red]

\* a body that cannot be decoded, a complete one, one that names no team,
\* one without duration and one without result
MatchBodies ==
    {Nil, MatchBody(4, 30, "blue", TeamA, TeamB),
     MatchBody(4, 30, "blue", Absent, Absent),
     MatchBody(3, 0, "blue", TeamA, TeamB),
     MatchBody(3, 30, "", TeamC, TeamB)}

\* the bodies of PUT /v1/matches/:id: one that cannot be decoded, one that
\* changes duration, result and played date and carries other teams, one
\* that names no team and one without duration
MatchEdits ==
    {Nil, MatchBody(5, 45, "red", TeamC, TeamA),
     MatchBody(4, 30, "blue", Absent, Absent),
     MatchBody(3, 0, "blue", TeamA, TeamB)}

\* the :id parameters: not a number, below 1, and the ids up to one above
\* the largest the store assigns
Params == {Param(FALSE, 0)} \cup {Param(TRUE, id) : id \in CallIds(MaxRecords)}

Pages == {0, 1}
Sorts == {"id", "-id", "bogus"}

\* the requests of the HTTP layer
NextHttp ==
    \/ \E body \in SummonerBodies, fails \in BOOLEAN : createSummonerHandler(body, fails)
    \/ \E body \in ChampionBodies, fails \in BOOLEAN : createChampionHandler(body, fails)
    \/ \E body \in MatchBodies, fails \in BOOLEAN : createMatchHandler(body, fails)
    \/ \E param \in Params, fails \in BOOLEAN : showSummonerHandler(param, fails)
    \/ \E param \in Params, fails \in BOOLEAN : showChampionHandler(param, fails)
    \/ \E param \in Params, fails \in BOOLEAN : showMatchHandler(param, fails)
    \/ \E param \in Params, body \in SummonerBodies, fails \in BOOLEAN :
          updateSummonerGet(param, body, fails)
    \/ \E fails \in BOOLEAN : updateSummonerUpdate(fails)
    \/ \E param \in Params, body \in ChampionBodies, fails \in BOOLEAN :
          updateChampionGet(param, body, fails)
    \/ \E fails \in BOOLEAN : updateChampionUpdate(fails)
    \/ \E param \in Params, body \in MatchEdits, fails \in BOOLEAN :
          updateMatchGet(param, body, fails)
    \/ \E fails \in BOOLEAN : updateMatchUpdate(fails)
    \/ \E param \in Params, fails \in BOOLEAN : deleteSummonerHandler(param, fails)
    \/ \E param \in Params, fails \in BOOLEAN : deleteChampionHandler(param, fails)
    \/ \E param \in Params, fails \in BOOLEAN : deleteMatchHandler(param, fails)
    \/ \E page \in Pages, sort \in Sorts, fails \in BOOLEAN :
          listSummonersHandler("", "", page, 1, sort, fails)
    \/ \E page \in Pages, sort \in Sorts, fails \in BOOLEAN :
          listChampionsHandler("", "", page, 1, sort, fails)
    \/ \E page \in Pages, sort \in Sorts, fails \in BOOLEAN :
          listMatchesHandler(page, 1, sort, fails)
    \/ \E param \in Params, fails \in BOOLEAN : getSummonersByMatch(param, fails)

SpecHttp == Init /\ [][NextHttp]_vars

\* PUT /v1/summoners/:id served while the updater runs for the summoner
NextPut ==
    \/ \E r \in Slots :
          /\ started < MaxStarts
          /\ Free(r)
          /\ Begin(r, {1}, {1}, {KDAOf(3, 1, 2)}, {"Top"})
    \/ \E r \in Slots : Step(r)
    \/ \E r \in Slots : Fail(r)
    \/ \E param \in Params, fails \in BOOLEAN :
          updateSummonerGet(param, SummonerBody("zed", "euw"), fails)
    \/ \E fails \in BOOLEAN : updateSummonerUpdate(fails)

SpecPut == InitStats /\ [][NextPut]_vars

\* -------------------------------------------------------------- claims
\* the error the last updater call returned
LastErr == returned[returned.fn]

Ended(r) == Active(r) /\ ~Active(r)'

Wins(runs) == Cardinality({i \in DOMAIN runs : runs[i].won})

Outcomes(runs) == [i \in DOMAIN runs |-> runs[i].won]

\* C1: a run of UpdateSummonerStatistics or UpdateChampionStatistics that
\* returns an error leaves every stored aggregate as it was, and the stored
\* aggregates change only in the step in which a run commits and returns nil.
C1_FailedRunChangesNothing ==
    [][/\ (\E r \in Slots : Ended(r) /\ LastErr' # "nil") => UNCHANGED aggregates
       /\ aggregates' # aggregates =>
            \E r \in Slots : /\ tx[r].pc \in {"commitSummoner", "commitChampion"}
                             /\ Ended(r)
                             /\ LastErr' = "nil"]_vars

\* C1 witness: a run for a fresh summoner failed at its commit, after all of
\* its writes, and the summoner row still counts no game.
C1_Witness ==
    /\ returned.fn = "summoner"
    /\ returned.at = "commitSummoner"
    /\ returned.summoner = "fault"
    /\ summoners[returned.summonerID].count_of_played_games = 0
    /\ summoner_champion_stats = EmptyTable

\* C2: when every run has ended, the count_of_played_games of each summoner
\* equals its value before (0) plus the number of committed
\* UpdateSummonerStatistics runs for that summoner.
C2_NoLostIncrement ==
    (\A r \in Slots : ~Active(r)) =>
        \A s \in SummonerIds :
            summoners[s].count_of_played_games = Len(committed.summoner[s])

\* C3: once both updater calls of one match performance have ended, either
\* both have committed or neither has.
C3_AllOrNothing ==
    (returned.summoner # "none" /\ returned.champion # "none") =>
        (returned.summoner = "nil" <=> returned.champion = "nil")

\* C4: after a committed run, with runs made one after the other, the stored
\* win rate of the summoner (of the champion) is its number of won committed
\* runs over its number of committed runs, i.e. (w + 1 if won else w)/(g + 1)
\* for the true prior wins w and prior games g.
C4_WinRateExact ==
    /\ (returned.fn = "summoner" /\ LastErr = "nil") =>
          LET runs == committed.summoner[returned.summonerID] IN
          summoners[returned.summonerID].win_rate = Float(Wins(runs), Len(runs))
    /\ (returned.fn = "champion" /\ LastErr = "nil") =>
          LET runs == committed.champion[returned.championID] IN
          champions[returned.championID].win_rate = Float(Wins(runs), Len(runs))

\* C5: from a freshly inserted summoner, a run recording a win yields games 1
\* and win rate 1.0, a following run recording a loss yields games 2 and win
\* rate 0.5, and neither run fails on its own (only a failing statement makes
\* one of them return an error).
C5_WinThenLoss ==
    \A s \in SummonerIds :
        LET won == Outcomes(committed.summoner[s]) IN
        /\ won = << >> =>
              /\ summoners[s].count_of_played_games = 0
              /\ summoners[s].win_rate = Zero
        /\ won = <<TRUE>> =>
              /\ summoners[s].count_of_played_games = 1
              /\ summoners[s].win_rate = Float(1, 1)
        /\ won = <<TRUE, FALSE>> =>
              /\ summoners[s].count_of_played_games = 2
              /\ summoners[s].win_rate = Float(1, 2)
        /\ (won \in {<< >>, <<TRUE>>} /\ returned.fn = "summoner"
                /\ returned.summonerID = s) =>
              returned.summoner \in {"nil", "fault"}

\* C5 witness: the win and then the loss are committed.
C5_Witness ==
    /\ Outcomes(committed.summoner[1]) = <<TRUE, FALSE>>
    /\ summoners[1].count_of_played_games = 2
    /\ summoners[1].win_rate = Float(1, 2)
    /\ LastErr = "nil"

\* C6: a committed UpdateSummonerStatistics run stores, for kills, deaths and
\* assists, (a * g + k) integer-divided by (g + 1), for the prior average a,
\* the prior games g and the match KDA k.
C6_RunningAverageKDA ==
    [][\A r \in Slots :
          (tx[r].pc = "commitSummoner" /\ Ended(r) /\ LastErr' = "nil") =>
             LET s == tx[r].summonerID
                 a == KDAScan(summoners[s].average_kda)
                 g == summoners[s].count_of_played_games
                 k == tx[r].kda
             IN KDAScan(summoners'[s].average_kda) =
                   KDAOf((a.Kills * g + k.Kills) \div (g + 1),
                         (a.Deaths * g + k.Deaths) \div (g + 1),
                         (a.Assists * g + k.Assists) \div (g + 1))]_vars

StoreTable(store) ==
    CASE store = "summoners" -> summoners
      [] store = "champions" -> champions
      [] store = "matches" -> matches

StoreGet(store, id) ==
    CASE store = "summoners" -> SummonerGet(id)
      [] store = "champions" -> ChampionGet(id)
      [] store = "matches" -> MatchGet(id)

\* C7: Get, Delete and Update of each store, called with an id below 1 or an
\* id of no stored record, return ErrRecordNotFound and change no table.
C7_NotFound ==
    [][(/\ call'.op \in {"Get", "Delete", "Update"}
        /\ (call'.id < 1 \/ call'.id \notin DOMAIN StoreTable(call'.store)))
       => (call'.err = ErrRecordNotFound /\ UNCHANGED tables)]_vars

ListedIn(team) == {team.Summoners[i] : i \in DOMAIN team.Summoners}

\* C9: when createMatchHandler has answered 201, every summoner listed in
\* the blue or the red team of the match has one more played game than before
\* the request.
C9_MatchUpdatesSummoners ==
    [][(/\ response'.handler = "createMatchHandler"
        /\ response'.reply = "writeJSON"
        /\ response'.status = StatusCreated
        /\ serial'.matches = serial.matches + 1)
       => \A s \in DOMAIN summoners :
             summoners[s].username \in ListedIn(response'.body.BlueTeam)
                                          \cup ListedIn(response'.body.RedTeam)
             => summoners'[s].count_of_played_games
                    = summoners[s].count_of_played_games + 1]_vars

\* a step in which a handler writes its response (not the step that leaves
\* a PUT waiting for its Update)
Answered ==
    /\ request'.handler # "none"
    /\ pending' = NoPending
    /\ <<request, response, pending>>' # <<request, response, pending>>

InvalidParam(param) == param # Nil /\ ReadIDParam(param).err # "nil"

InvalidBody(handler, body) ==
    CASE handler \in {"createSummonerHandler", "updateSummonerHandler"} ->
            body.Username = "" \/ body.Region = ""
      [] handler \in {"createChampionHandler", "updateChampionHandler"} ->
            body.Name = "" \/ body.MainRole = "" \/ body.Name = "Champion"
      [] handler = "createMatchHandler" ->
            \/ body.Result = "" \/ body.Duration <= 0
            \/ body.BlueTeam = Absent \/ body.RedTeam = Absent
      [] handler = "updateMatchHandler" ->
            body.Result = "" \/ body.Duration <= 0
      [] OTHER -> FALSE

\* C12: a create request whose entity is invalid (a summoner without
\* username or region; a champion without name or main role, or named
\* "Champion"; a match without result, with duration <= 0 or without its
\* blue or red team) is answered with a validation failure, an update
\* request with such an entity is not answered with success, and both leave
\* every table unchanged.
C12_InvalidRejected ==
    [][(/\ Answered
        /\ request'.body # Nil
        /\ InvalidBody(request'.handler, request'.body))
       => /\ UNCHANGED tables
          /\ response'.status \notin {StatusOK, StatusCreated}
          /\ request'.handler \in {"createSummonerHandler", "createChampionHandler",
                                   "createMatchHandler"}
                => response'.reply = "failedValidationResponse"]_vars

\* the table a PUT handler updates
UpdatedTable(handler) ==
    CASE handler = "updateSummonerHandler" -> summoners
      [] handler = "updateChampionHandler" -> champions
      [] handler = "updateMatchHandler" -> matches

\* C19: when a PUT is answered 200, the record of its id was in the store
\* at the moment of its Update and is there afterwards (a PUT whose record
\* was deleted between its Get and its Update is not answered with success).
C19_SuccessMeansUpdated ==
    [][(/\ pending # NoPending
        /\ pending' = NoPending
        /\ response'.handler = pending.handler
        /\ response'.status = StatusOK)
       => /\ pending.record.ID \in DOMAIN UpdatedTable(pending.handler)
          /\ (response.body.ID \in DOMAIN UpdatedTable(response.handler))']_vars

\* the sort key of a returned record under a sort value: the id, or the
\* place of the column's text in the collation
FieldRank(record, sort) ==
    CASE sort \in {"id", "-id"} -> record.ID
      [] sort \in {"username", "-username"} -> TextRank(record.Username)
      [] sort \in {"region", "-region"} -> TextRank(record.Region)
      [] sort \in {"name", "-name"} -> TextRank(record.Name)
      [] sort \in {"main_role", "-main_role"} -> TextRank(record.MainRole)

Descending(sort) == sort \in {"-id", "-username", "-region", "-name", "-main_role"}

\* record a stands before record b under the sort value: by the column in
\* the requested direction, by ascending id when the column is equal
InOrder(a, b, sort) ==
    IF FieldRank(a, sort) = FieldRank(b, sort) THEN a.ID < b.ID
    ELSE IF Descending(sort) THEN FieldRank(a, sort) > FieldRank(b, sort)
    ELSE FieldRank(a, sort) < FieldRank(b, sort)

\* C13: the result of GetAll is ordered by the column of its sort value in
\* the requested direction, records with an equal column by ascending id
\* (with sort=-username: descending username, ties by ascending id).
C13_Sorted ==
    call.op = "GetAll" =>
        \A i, j \in DOMAIN call.out :
            i < j => InOrder(call.out[i], call.out[j], call.arg.filters.Sort)

\* sort=-username returned two summoners of one username, from a full store
C13_Witness ==
    /\ call.op = "GetAll"
    /\ call.store = "summoners"
    /\ call.arg.filters.Sort = "-username"
    /\ Len(call.out) = 2
    /\ call.out[1].Username = call.out[2].Username
    /\ Cardinality(DOMAIN summoners) = MaxListed

\* a filter value matches a column: empty, or equal without regard to case
MatchesFilter(value, filter) == filter = "" \/ Lower(value) = Lower(filter)

\* the ids of the records of a store that match both filter values
MatchingIds(store, arg) ==
    IF store = "summoners"
    THEN {id \in DOMAIN summoners :
            /\ MatchesFilter(summoners[id].username, arg.first)
            /\ MatchesFilter(summoners[id].region, arg.second)}
    ELSE {id \in DOMAIN champions :
            /\ MatchesFilter(champions[id].name, arg.first)
            /\ MatchesFilter(champions[id].main_role, arg.second)}

RecordOf(store, id) ==
    IF store = "summoners" THEN SummonerOf(id, summoners[id])
    ELSE ChampionOf(id, champions[id])

\* the matching records that stand before the record id in the sorted list
Preceding(store, arg, id) ==
    {m \in MatchingIds(store, arg) \ {id} :
        InOrder(RecordOf(store, m), RecordOf(store, id), arg.filters.Sort)}

\* the result of the call with the page number replaced by q
PageOf(store, arg, q) ==
    LET filters == [arg.filters EXCEPT !.Page = q] IN
    IF store = "summoners" THEN SummonerGetAll(arg.first, arg.second, filters)
    ELSE ChampionGetAll(arg.first, arg.second, filters)

\* the result holds the records at the positions (p-1)*s .. p*s-1 of the
\* sorted list of the matching records
PagePositions ==
    call.op = "GetAll" =>
        LET M == MatchingIds(call.store, call.arg)
            p == call.arg.filters.Page
            s == call.arg.filters.PageSize
            left == Cardinality(M) - (p - 1) * s
        IN /\ Len(call.out) = IF left < 0 THEN 0 ELSE IF left < s THEN left ELSE s
           /\ \A i \in DOMAIN call.out :
                 /\ call.out[i].ID \in M
                 /\ call.out[i] = RecordOf(call.store, call.out[i].ID)
                 /\ Cardinality(Preceding(call.store, call.arg, call.out[i].ID))
                       = (p - 1) * s + i - 1

\* the pages 1, 2, ... of the call's filters, sort and page size hold
\* every matching record exactly once and nothing else
PagesPartition ==
    call.op = "GetAll" =>
        LET M == MatchingIds(call.store, call.arg)
            places == {<<q, i>> \in ListedIds \X ListedIds :
                          i \in DOMAIN PageOf(call.store, call.arg, q)}
        IN /\ \A pl \in places : PageOf(call.store, call.arg, pl[1])[pl[2]].ID \in M
           /\ \A m \in M :
                 Cardinality({pl \in places :
                     PageOf(call.store, call.arg, pl[1])[pl[2]].ID = m}) = 1
           /\ PageOf(call.store, call.arg, MaxListed + 1) = << >>

\* C14: GetAll with page p and page size s returns exactly the records at
\* the positions (p-1)*s .. p*s-1 of the sorted list of the records that
\* match every non-empty filter without regard to case; the pages are
\* disjoint and hold every matching record exactly once.
C14_Paging == PagePositions /\ PagesPartition

\* page 2 of the summoners named AHRI, in a store with another summoner
C14_Witness ==
    /\ call.op = "GetAll"
    /\ call.store = "summoners"
    /\ call.arg.first = "AHRI"
    /\ call.arg.filters.Page = 2
    /\ Len(call.out) >= 1
    /\ call.out[1].Username = "Ahri"
    /\ MatchingIds(call.store, call.arg) # DOMAIN summoners

\* the stored per-champion or per-role row, count 0 and rate 0 when the
\* pair has none
StatsOrZero(table, key) ==
    IF key \in DOMAIN table THEN table[key]
    ELSE [count_of_played_matches |-> 0, win_rate |-> Zero]

\* the row a run that read the row old and recorded win is to store
Upserted(old, win) ==
    LET n == old.count_of_played_matches + 1 IN
    [count_of_played_matches |-> n,
     win_rate |-> Float(old.win_rate[1] * (n - 1) + win * old.win_rate[2],
                        old.win_rate[2] * n)]

\* the row of k runs of which w were wins: none for k = 0
RowOfRuns(table, key, runs) ==
    IF runs = << >> THEN key \notin DOMAIN table
    ELSE /\ key \in DOMAIN table
         /\ table[key] = [count_of_played_matches |-> Len(runs),
                          win_rate |-> Float(Wins(runs), Len(runs))]

WithChampion(run, c) == run.championID = c
WithRole(run, role) == run.role = role

PlayedBy(table, c) == {k[1] : k \in {x \in DOMAIN table : x[2] = c}}

Repeated(r) ==
    LET runs == committed.summoner[tx[r].summonerID] IN
    /\ tx[r].pc \in SummonerSteps
    /\ runs # << >>
    /\ runs[Len(runs)].championID = tx[r].championID
    /\ runs[Len(runs)].role = tx[r].role
    /\ runs[Len(runs)].won = tx[r].won

\* C17: a second UpdateSummonerStatistics call with the arguments of a
\* committed one succeeds as well (unless one of its statements fails) and
\* counts the match again: the games of the summoner and the counts of its
\* per-champion and per-role rows are one higher than after the first call.
C17_RepeatedCallCountsTwice ==
    [][\A r \in Slots :
          (Repeated(r) /\ Ended(r)) =>
             LET s == tx[r].summonerID
                 ck == <<tx[r].summonerID, tx[r].championID>>
                 rk == <<tx[r].summonerID, tx[r].role>>
             IN /\ LastErr' \in {"nil", "fault"}
                /\ LastErr' = "nil" =>
                     /\ summoners'[s].count_of_played_games =
                           summoners[s].count_of_played_games + 1
                     /\ summoner_champion_stats'[ck].count_of_played_matches =
                           summoner_champion_stats[ck].count_of_played_matches + 1
                     /\ summoner_role_stats'[rk].count_of_played_matches =
                           summoner_role_stats[rk].count_of_played_matches + 1]_vars

\* the sum of count_of_played_matches over the rows of the keys
RECURSIVE SumOfCounts(_, _)
SumOfCounts(table, keys) ==
    IF keys = {} THEN 0
    ELSE LET k == CHOOSE x \in keys : TRUE IN
         table[k].count_of_played_matches + SumOfCounts(table, keys \ {k})

RowsOf(table, s) == {k \in DOMAIN table : k[1] = s}

\* C20: when no run of the updater is in progress, the count_of_played_games
\* of every summoner equals the sum of the counts of its per-champion rows
\* and the sum of the counts of its per-role rows.
C20_CountsAgree ==
    (\A r \in Slots : ~Active(r)) =>
        \A s \in DOMAIN summoners :
            /\ summoners[s].count_of_played_games =
                  SumOfCounts(summoner_champion_stats, RowsOf(summoner_champion_stats, s))
            /\ summoners[s].count_of_played_games =
                  SumOfCounts(summoner_role_stats, RowsOf(summoner_role_stats, s))

\* the aggregates of a summoners row
Aggregates(row) ==
    <<row.count_of_played_games, row.win_rate, row.average_kda>>

\* C18: the Update of a PUT /v1/summoners/:id that is answered 200 leaves
\* count_of_played_games, win_rate and average_kda of the summoner as the
\* updater runs committed so far have made them; it changes username and
\* region only.
C18_EditKeepsAggregates ==
    [][(/\ pending.handler = "updateSummonerHandler"
        /\ pending' = NoPending
        /\ response'.status = StatusOK
        /\ pending.record.ID \in DOMAIN summoners)
       => /\ Aggregates(summoners'[pending.record.ID])
                = Aggregates(summoners[pending.record.ID])
          /\ summoners'[pending.record.ID].rating = summoners[pending.record.ID].rating
          /\ summoners'[pending.record.ID].username = pending.body.Username
          /\ summoners'[pending.record.ID].region = pending.body.Region]_vars

\* C21: an UpdateChampionStatistics run that reads the per-champion row of
\* its (summoner, champion) pair when the pair has none returns an error in
\* that step, after it has written the champions row inside the run, and
\* leaves the champions row and the best-summoners table as they were; a
\* run commits only when the row exists.
C21_NeedsSummonerRun ==
    [][\A r \in Slots :
          LET c == tx[r].championID
              pair == <<tx[r].summonerID, tx[r].championID>>
          IN /\ (/\ tx[r].pc = "selSummonerStats"
                 /\ tx'[r] # tx[r]
                 /\ pair \notin DOMAIN summoner_champion_stats)
                => /\ Ended(r)
                   /\ returned'.fn = "champion"
                   /\ LastErr' # "nil"
                   /\ c \in DOMAIN tx[r].writes.champions
                   /\ champions' = champions
                   /\ champion_best_summoners' = champion_best_summoners
                   /\ UNCHANGED aggregates
             /\ (tx[r].pc = "commitChampion" /\ Ended(r) /\ LastErr' = "nil")
                => pair \in DOMAIN summoner_champion_stats]_vars

\* C21 witness: a run for a champion whose summoner has no per-champion row
\* has returned sql.ErrNoRows from the read of that row; the champions row
\* counts no match and there is no best-summoners row.
C21_Witness ==
    /\ returned.fn = "champion"
    /\ returned.at = "selSummonerStats"
    /\ returned.champion = "sql: no rows"
    /\ <<returned.summonerID, returned.championID>> \notin DOMAIN summoner_champion_stats
    /\ champions[returned.championID].count_of_played_matches = 0
    /\ champion_best_summoners = EmptyTable

RecordedRate(runs) == IF runs = << >> THEN Zero ELSE Float(Wins(runs), Len(runs))

\* C10: every stored win rate is in [0,1] and is wins/games of the committed
\* runs of its entity: the summoner, the champion, the summoner with the
\* champion, the summoner in the role.
C10_WinRateFromCounts ==
    /\ \A s \in DOMAIN summoners :
          /\ summoners[s].win_rate[1] <= summoners[s].win_rate[2]
          /\ summoners[s].win_rate = RecordedRate(committed.summoner[s])
    /\ \A c \in DOMAIN champions :
          /\ champions[c].win_rate[1] <= champions[c].win_rate[2]
          /\ champions[c].win_rate = RecordedRate(committed.champion[c])
    /\ \A k \in DOMAIN summoner_champion_stats :
          LET With(run) == run.championID = k[2] IN
          /\ summoner_champion_stats[k].win_rate[1] <= summoner_champion_stats[k].win_rate[2]
          /\ summoner_champion_stats[k].win_rate =
                RecordedRate(SelectSeq(committed.summoner[k[1]], With))
    /\ \A k \in DOMAIN summoner_role_stats :
          LET In(run) == run.role = k[2] IN
          /\ summoner_role_stats[k].win_rate[1] <= summoner_role_stats[k].win_rate[2]
          /\ summoner_role_stats[k].win_rate =
                RecordedRate(SelectSeq(committed.summoner[k[1]], In))
    /\ \A k \in DOMAIN champion_best_summoners :
          champion_best_summoners[k].win_rate[1] <= champion_best_summoners[k].win_rate[2]

=============================================================================
